---- MODULE Spec2Model ----
(***************************************************************************)
(* Training runs of run_finetune.py: the plain runner (run_train), the two  *)
(* curriculum runners (run_ccl_train, run_cl_with_synthesised_data) and    *)
(* the two mixers (uniform_mixing, uniform_mixing_tts).                    *)
(*                                                                         *)
(* A Dataset is a sequence of rows; a row is a record                      *)
(*   [id, cefr_mean, synth].                                               *)
(* The trainer, the predictions and the metrics are opaque collaborators:  *)
(* a call to them is an event of the log `events`, and it may raise.       *)
(***************************************************************************)
EXTENDS Integers, Sequences, FiniteSets, TLC

\* ------------------------------------------------------------------ bounds
\* cefr_mean takes the values 1..NumLabels
NumLabels == 3
\* rows carrying the lowest label in a generated training set: 0..MaxEasyCount
MaxEasyCount == 6
\* rows carrying each higher label in a generated training set: 0..MaxOtherCount
MaxOtherCount == 2
\* rows of the original / of the synthesised set of the pairwise runner
MaxSide == 3
\* epochs of one phase: 1..MaxEpoch
MaxEpoch == 2
\* fold number: 0..MaxFold
MaxFold == 1
\* calls of a runner with the same training_args object: 1..MaxInvocations
MaxInvocations == 2

Labels == 1..NumLabels

\* ------------------------------------------------------------------ state
VARIABLES
    entry,              \* the function that was called
    pc,                 \* position in it
    train_dataset,      \* argument: the training set
    synth_train_dataset,\* argument: the synthesised training set
    training_args,      \* argument: [num_train_epochs, output_dir], mutated
    declared_epochs,    \* training_args.num_train_epochs as the caller passed it
    declared_dir,       \* training_args.output_dir as the caller passed it
    invocation,         \* 1 for the first call of the function, 2 for the next
    ccl_args,           \* argument: [difficulty_order, n_epochs]
    um,                 \* argument: uniform mixing or not
    fold,               \* argument
    mix_args,           \* arguments of a direct call of a mixer
    train_datasets,     \* local: the list of per-phase datasets
    i,                  \* local: loop index
    trainer,            \* local: <<>> while unbound, else <<[model, args...]>>
    model,              \* the one mutable model: the training passes applied
    events,             \* calls made to the external collaborator, in order
    error,              \* the exception that left the function, or "none"
    n_splits,           \* train_test_split calls made
    n_concats           \* concatenate_datasets calls made

vars == <<entry, pc, train_dataset, synth_train_dataset, training_args,
          declared_epochs, declared_dir, invocation, ccl_args, um, fold,
          mix_args, train_datasets, i, trainer,
          model, events, error, n_splits, n_concats>>

\* ------------------------------------------------------------- arithmetic
RECURSIVE Sum(_)
\* sum(list)
Sum(s) == IF s = <<>> THEN 0 ELSE Head(s) + Sum(Tail(s))

Min(a, b) == IF a <= b THEN a ELSE b

\* math.ceil(a / b) for a >= 0, b > 0
Ceil(a, b) == (a + b - 1) \div b

\* a float given as the fraction num/den; 0.2 is Frac(1, 5)
Frac(n, d) == [num |-> n, den |-> d]

\* swap_proportion / 2
Halve(p) == [num |-> p.num, den |-> 2 * p.den]

\* x > 0 and x < 1
InOpenUnit(p) == p.num > 0 /\ p.num < p.den

\* ---------------------------------------------------------------- datasets
Row(k, l, s) == [id |-> k, cefr_mean |-> l, synth |-> s]

\* the label of row k of a table holding counts[l] rows of label l, label by label
LabelAt(counts, k) ==
    CHOOSE l \in DOMAIN counts :
        /\ k > Sum(SubSeq(counts, 1, l - 1))
        /\ k <= Sum(SubSeq(counts, 1, l))

\* Dataset.from_pandas of a table of Sum(counts) rows, ids from `first`
MakeDataset(counts, first, s) ==
    [k \in 1..Sum(counts) |-> Row(first + k - 1, LabelAt(counts, k), s)]

\* dataset.unique("cefr_mean")
Unique(ds) == {ds[k].cefr_mean : k \in DOMAIN ds}

\* the rows of a dataset as a multiset: row -> number of occurrences
Count(ds, r) == Cardinality({k \in DOMAIN ds : ds[k] = r})
Rows(ds) == {ds[k] : k \in DOMAIN ds}
SameRows(a, b) ==
    /\ Len(a) = Len(b)
    /\ \A r \in Rows(a) \cup Rows(b) : Count(a, r) = Count(b, r)
SubRows(a, b) == \A r \in Rows(a) : Count(a, r) <= Count(b, r)

\* train_dataset.filter(lambda example: example["cefr_mean"] in scores):
\* the rows whose label is in scores, in order
FilterByScores(ds, scores) ==
    LET keep(r) == r.cefr_mean \in scores IN SelectSeq(ds, keep)

\* numpy's default_rng(201123).permutation(n) for n = 1, 2, ..., as 1-based
\* positions: the n-th item is the permutation of n rows
SeededPermutations ==
    <<
      <<1>>,
      <<1, 2>>,
      <<1, 3, 2>>,
      <<3, 4, 1, 2>>,
      <<3, 1, 2, 4, 5>>,
      <<3, 1, 2, 4, 5, 6>>,
      <<3, 1, 2, 7, 4, 5, 6>>,
      <<7, 1, 3, 2, 8, 4, 5, 6>>,
      <<7, 1, 3, 2, 9, 4, 5, 8, 6>>,
      <<2, 10, 9, 1, 3, 7, 4, 5, 8, 6>>,
      <<2, 5, 7, 10, 1, 3, 11, 9, 4, 8, 6>>,
      <<7, 2, 5, 9, 11, 1, 3, 12, 10, 4, 8, 6>>,
      <<12, 2, 9, 5, 10, 7, 1, 3, 13, 11, 4, 8, 6>>,
      <<9, 2, 10, 5, 11, 13, 7, 1, 3, 14, 12, 4, 8, 6>>,
      <<9, 2, 10, 5, 11, 14, 7, 1, 3, 15, 12, 4, 13, 8, 6>>,
      <<10, 2, 11, 5, 12, 1, 7, 15, 9, 3, 16, 14, 4, 13, 8, 6>>,
      <<5, 11, 2, 10, 12, 15, 1, 7, 16, 9, 3, 17, 14, 4, 13, 8, 6>>,
      <<10, 17, 5, 14, 2, 12, 11, 15, 1, 7, 8, 9, 3, 18, 16, 4, 13, 6>>,
      <<10, 16, 14, 12, 11, 5, 2, 15, 18, 1, 7, 8, 9, 3, 19, 17, 4, 13, 6>>,
      <<16, 19, 12, 10, 11, 5, 15, 2, 17, 14, 1, 7, 8, 9, 3, 20, 18, 4, 13,
         6>>,
      <<17, 14, 20, 11, 12, 5, 16, 2, 18, 10, 15, 1, 7, 8, 9, 3, 21, 19, 4,
         13, 6>>,
      <<18, 15, 14, 11, 21, 5, 17, 2, 19, 10, 16, 12, 1, 7, 8, 9, 3, 22, 20,
         4, 13, 6>>,
      <<19, 8, 17, 22, 16, 5, 18, 2, 20, 11, 14, 10, 9, 15, 12, 1, 7, 3, 23,
         21, 4, 13, 6>>,
      <<20, 8, 2, 11, 14, 1, 18, 5, 19, 21, 15, 23, 10, 9, 16, 12, 17, 7, 3,
         24, 22, 4, 13, 6>>,
      <<20, 8, 2, 11, 14, 1, 18, 5, 19, 21, 15, 23, 10, 9, 16, 12, 17, 7, 3,
         25, 22, 4, 13, 24, 6>>,
      <<21, 9, 2, 12, 11, 1, 19, 8, 5, 20, 15, 22, 18, 16, 25, 10, 14, 17,
         7, 3, 26, 23, 4, 13, 24, 6>>,
      <<12, 16, 22, 9, 8, 2, 11, 1, 20, 5, 21, 18, 23, 15, 19, 25, 10, 14,
         17, 7, 3, 27, 26, 4, 13, 24, 6>>,
      <<12, 20, 23, 9, 8, 2, 11, 1, 21, 5, 22, 15, 27, 19, 16, 18, 26, 10,
         14, 17, 7, 3, 28, 25, 4, 13, 24, 6>>,
      <<28, 18, 15, 16, 12, 5, 2, 25, 11, 1, 21, 20, 19, 8, 23, 9, 22, 27,
         10, 14, 17, 7, 3, 29, 26, 4, 13, 24, 6>>,
      <<25, 19, 15, 22, 12, 5, 2, 26, 11, 1, 18, 21, 20, 8, 29, 16, 9, 23,
         28, 10, 14, 17, 7, 3, 30, 27, 4, 13, 24, 6>>,
      <<26, 19, 15, 22, 12, 5, 2, 27, 11, 1, 18, 21, 20, 8, 25, 16, 9, 23,
         29, 10, 14, 17, 7, 30, 3, 31, 28, 4, 13, 24, 6>>,
      <<27, 19, 15, 22, 12, 5, 2, 28, 11, 1, 18, 21, 20, 8, 26, 16, 9, 23,
         30, 10, 14, 17, 7, 31, 25, 3, 32, 29, 4, 13, 24, 6>>
    >>
SeededPermutation200 ==
    <<82, 75, 133, 184, 65, 180, 60, 83, 6, 169, 1, 105, 189, 79, 102, 124,
       67, 22, 118, 33, 15, 186, 47, 106, 34, 183, 177, 36, 31, 200, 152,
       91, 117, 19, 7, 131, 78, 9, 143, 168, 112, 24, 99, 87, 181, 66, 191,
       49, 56, 51, 103, 55, 129, 173, 72, 165, 45, 101, 68, 44, 161, 50, 52,
       113, 146, 198, 89, 23, 109, 176, 81, 2, 40, 111, 179, 141, 94, 76,
       151, 197, 90, 166, 132, 13, 12, 130, 138, 43, 119, 108, 123, 48, 37,
       150, 140, 58, 41, 192, 121, 114, 144, 85, 63, 17, 10, 54, 5, 193, 11,
       182, 64, 122, 136, 171, 73, 35, 77, 74, 96, 62, 139, 84, 104, 98,
       115, 16, 86, 178, 163, 116, 29, 127, 147, 92, 4, 70, 46, 142, 159,
       157, 172, 155, 185, 32, 175, 100, 188, 57, 93, 194, 174, 42, 71, 162,
       80, 125, 14, 30, 156, 61, 27, 69, 199, 149, 107, 59, 126, 148, 21,
       18, 190, 167, 97, 110, 187, 8, 195, 160, 137, 135, 128, 53, 154, 20,
       158, 95, 26, 170, 25, 28, 145, 39, 120, 153, 3, 134, 164, 196, 88, 38>>
SeededPermutation400 ==
    <<16, 179, 374, 314, 150, 105, 161, 103, 369, 191, 287, 90, 242, 91,
       123, 281, 292, 303, 349, 256, 78, 245, 181, 162, 268, 117, 107, 331,
       119, 229, 395, 261, 228, 297, 243, 285, 279, 6, 225, 133, 301, 359,
       342, 157, 337, 209, 304, 278, 82, 288, 111, 221, 33, 326, 283, 141,
       170, 115, 280, 262, 356, 85, 336, 41, 313, 332, 308, 20, 339, 9, 63,
       194, 146, 273, 132, 380, 155, 354, 203, 367, 223, 210, 159, 102, 397,
       386, 147, 379, 399, 113, 298, 361, 11, 184, 340, 67, 31, 208, 226,
       180, 347, 65, 305, 89, 185, 348, 385, 396, 192, 38, 335, 142, 79, 84,
       151, 186, 15, 353, 202, 360, 37, 239, 329, 200, 108, 258, 152, 324,
       393, 10, 378, 18, 193, 219, 275, 35, 250, 252, 382, 296, 19, 381, 28,
       7, 238, 309, 244, 195, 307, 49, 328, 260, 72, 368, 224, 387, 94, 112,
       13, 47, 176, 140, 333, 390, 231, 101, 149, 299, 247, 196, 310, 106,
       312, 384, 109, 44, 364, 334, 171, 40, 346, 389, 74, 394, 249, 76, 50,
       99, 178, 114, 81, 60, 236, 131, 264, 54, 218, 230, 373, 222, 98, 357,
       39, 319, 45, 129, 95, 330, 34, 271, 43, 318, 128, 277, 68, 22, 207,
       182, 317, 248, 235, 1, 122, 321, 246, 204, 121, 46, 263, 143, 257,
       174, 124, 188, 139, 311, 83, 75, 163, 241, 56, 289, 24, 345, 266,
       211, 36, 350, 71, 323, 315, 73, 158, 290, 265, 205, 55, 320, 358, 51,
       306, 69, 2, 130, 233, 66, 197, 338, 362, 52, 240, 48, 400, 343, 87,
       23, 232, 217, 388, 227, 272, 375, 215, 383, 165, 300, 316, 366, 255,
       269, 12, 291, 116, 58, 322, 17, 293, 169, 118, 234, 392, 372, 213,
       145, 138, 5, 267, 64, 198, 201, 77, 96, 62, 104, 144, 86, 189, 173,
       29, 127, 136, 190, 341, 166, 92, 187, 4, 70, 302, 168, 175, 206, 371,
       253, 14, 355, 30, 32, 377, 100, 370, 57, 93, 352, 177, 254, 212, 376,
       214, 172, 42, 327, 365, 183, 80, 125, 251, 270, 286, 156, 61, 27,
       325, 88, 363, 59, 126, 148, 21, 274, 216, 391, 167, 97, 199, 110,
       282, 8, 3, 160, 137, 135, 53, 154, 276, 351, 26, 398, 25, 220, 284,
       295, 120, 153, 259, 134, 164, 237, 344, 294>>

\* the permutation every seed=201123 call draws for n rows; the lengths listed
\* are those the generated inputs and the scenarios reach
Permutation(n) ==
    CASE n = 0 -> <<>>
      [] n >= 1 /\ n <= Len(SeededPermutations) -> SeededPermutations[n]
      [] n = 200 -> SeededPermutation200
      [] n = 400 -> SeededPermutation400

\* dataset.shuffle(seed=201123)
shuffle(ds) == [j \in 1..Len(ds) |-> ds[Permutation(Len(ds))[j]]]

RECURSIVE concatenate_datasets(_)
\* concatenate_datasets(list)
concatenate_datasets(list) ==
    IF list = <<>> THEN <<>>
    ELSE Head(list) \o concatenate_datasets(Tail(list))

\* the floats 0.2, 0.5, 0.8 and their halves 0.1, 0.25, 0.4: for these the
\* float product test_size * n_samples rounds up to the ceiling of the exact
\* product (n_samples up to 300000); for other floats it need not (0.28 * 25)
ExactProportions ==
    { Frac(1, 5), Frac(1, 2), Frac(4, 5),
      Halve(Frac(1, 5)), Halve(Frac(1, 2)), Halve(Frac(4, 5)) }

\* n_test of train_test_split: ceil(test_size * n_samples), for the floats
\* whose product is exact
TestCount(ds, p) ==
    CASE p \in ExactProportions -> Ceil(p.num * Len(ds), p.den)

\* dataset.train_test_split(test_size=p, seed=201123): an empty dataset is
\* returned as both parts; otherwise ValueError unless 0 < p < 1 and the train
\* part is not empty
train_test_split(ds, p) ==
    LET n      == Len(ds)
        n_test == TestCount(ds, p)
        n_train == n - n_test
        perm   == Permutation(n)
    IN  IF n = 0
        THEN [ok |-> TRUE, train |-> ds, test |-> ds]
        ELSE IF ~InOpenUnit(p) \/ n_train <= 0
        THEN [ok |-> FALSE, train |-> <<>>, test |-> <<>>]
        ELSE [ok |-> TRUE,
              test  |-> [j \in 1..n_test |-> ds[perm[j]]],
              train |-> [j \in 1..n_train |-> ds[perm[n_test + j]]]]

\* ------------------------------------------------------------------ mixers
\* what a mixer call yields: the exception or the returned list, and the
\* train_test_split / concatenate_datasets calls it made
Raised(e, splits) ==
    [err |-> e, result |-> <<>>, splits |-> splits, concats |-> 0]
Returned(list, splits, concats) ==
    [err |-> "none", result |-> list, splits |-> splits, concats |-> concats]

MixingArgsUnchecked(datasets, swap_proportion) == Len(datasets) = 3
\* lines 225-226: the two leading assertions of uniform_mixing
MixingArgsAccepted(datasets, swap_proportion) ==
    Len(datasets) = 3 /\ InOpenUnit(swap_proportion)

HardSetGuardLess(hard_set, num_of_unique_classes) ==
    Cardinality(Unique(hard_set)) < num_of_unique_classes
\* line 229: the guard on the hard set
HardSetGuard(hard_set, num_of_unique_classes) ==
    Cardinality(Unique(hard_set)) # num_of_unique_classes

MixedSetsSameHalf(e_split, e_replace, m_split, h_split) ==
    [easy_set   |-> shuffle(concatenate_datasets(
                        <<e_split.train, m_split.test, h_split.test>>)),
     medium_set |-> shuffle(concatenate_datasets(
                        <<m_split.train, e_replace.train>>)),
     hard_set   |-> shuffle(concatenate_datasets(
                        <<h_split.train, e_replace.train>>))]
\* lines 242-244: the three mixed sets out of the four splits
MixedSets(easy_set_split, easy_set_replace, medium_set_split, hard_set_split) ==
    [easy_set   |-> shuffle(concatenate_datasets(
                        <<easy_set_split.train, medium_set_split.test,
                          hard_set_split.test>>)),
     medium_set |-> shuffle(concatenate_datasets(
                        <<medium_set_split.train, easy_set_replace.train>>)),
     hard_set   |-> shuffle(concatenate_datasets(
                        <<hard_set_split.train, easy_set_replace.test>>))]

CumulativeListFlat(m) == <<m.easy_set, m.medium_set, m.hard_set>>
\* lines 246-250: the returned list
CumulativeList(m) ==
    << m.easy_set,
       shuffle(concatenate_datasets(<<m.easy_set, m.medium_set>>)),
       shuffle(concatenate_datasets(<<m.easy_set, m.medium_set, m.hard_set>>)) >>

\* uniform_mixing(datasets, swap_proportion, num_of_unique_classes)
uniform_mixing(datasets, swap_proportion, num_of_unique_classes) ==
    IF ~MixingArgsAccepted(datasets, swap_proportion)
    THEN Raised("AssertionError", 0)
    ELSE
    LET easy_set   == datasets[1]
        medium_set == datasets[2]
        hard_set   == datasets[3]
    IN
    IF ~HardSetGuard(hard_set, num_of_unique_classes)
    THEN Raised("AssertionError", 0)
    ELSE
    LET easy_set_split == train_test_split(easy_set, swap_proportion) IN
    IF ~easy_set_split.ok THEN Raised("ValueError", 1)
    ELSE
    LET easy_set_replace == train_test_split(easy_set_split.test, Frac(1, 2)) IN
    IF ~easy_set_replace.ok THEN Raised("ValueError", 2)
    ELSE
    LET medium_set_split == train_test_split(medium_set, Halve(swap_proportion)) IN
    IF ~medium_set_split.ok THEN Raised("ValueError", 3)
    ELSE
    LET hard_set_split == train_test_split(hard_set, Halve(swap_proportion)) IN
    IF ~hard_set_split.ok THEN Raised("ValueError", 4)
    ELSE
    Returned(CumulativeList(MixedSets(easy_set_split, easy_set_replace,
                                      medium_set_split, hard_set_split)),
             4, 5)

\* lines 337-338: the two leading assertions of uniform_mixing_tts
TtsArgsAccepted(datasets, swap_proportion) ==
    Len(datasets) = 2 /\ InOpenUnit(swap_proportion)

TtsMixedSetsSwapped(original_data_split, synthesised_data_split) ==
    [easy_set      |-> shuffle(concatenate_datasets(
                           <<original_data_split.test,
                             synthesised_data_split.test>>)),
     diffisult_set |-> shuffle(concatenate_datasets(
                           <<original_data_split.train,
                             synthesised_data_split.train>>))]
\* lines 344-345: the two mixed sets out of the two splits
TtsMixedSets(original_data_split, synthesised_data_split) ==
    [easy_set      |-> shuffle(concatenate_datasets(
                           <<original_data_split.train,
                             synthesised_data_split.test>>)),
     diffisult_set |-> shuffle(concatenate_datasets(
                           <<original_data_split.test,
                             synthesised_data_split.train>>))]

\* lines 347-350: the returned list
TtsList(m) ==
    << m.easy_set,
       shuffle(concatenate_datasets(<<m.easy_set, m.diffisult_set>>)) >>

\* uniform_mixing_tts(datasets, swap_proportion)
uniform_mixing_tts(datasets, swap_proportion) ==
    IF ~TtsArgsAccepted(datasets, swap_proportion)
    THEN Raised("AssertionError", 0)
    ELSE
    LET original_data_split ==
            train_test_split(datasets[1], swap_proportion) IN
    IF ~original_data_split.ok THEN Raised("ValueError", 1)
    ELSE
    LET synthesised_data_split ==
            train_test_split(datasets[2], swap_proportion) IN
    IF ~synthesised_data_split.ok THEN Raised("ValueError", 2)
    ELSE
    Returned(TtsList(TtsMixedSets(original_data_split, synthesised_data_split)),
             2, 3)

\* ----------------------------------------------------------------- runners
Digits == {"0", "1", "2", "3", "4", "5", "6", "7", "8", "9"}
\* directories are written in Latin-1 (U+0000 to U+00FF); of its characters
\* str.isnumeric() is true of the ten digits, the superscripts one, two, three
\* and the three fractions
NumericChars == Digits \cup {"¹", "²", "³", "¼", "½", "¾"}
DigitChar(d) == <<"0", "1", "2", "3", "4", "5", "6", "7", "8", "9">>[d + 1]

RECURSIVE Str(_)
\* str(n) for n >= 0, as the sequence of its characters
Str(n) == IF n < 10 THEN <<DigitChar(n)>>
          ELSE Str(n \div 10) \o <<DigitChar(n % 10)>>

FoldDirAppend(output_dir, f) ==
    output_dir \o <<"_", "f", "o", "l", "d", "_">> \o Str(f)
\* lines 273-275: the output dir rewritten for the fold
FoldDir(output_dir, f) ==
    IF output_dir[Len(output_dir)] \in NumericChars
    THEN SubSeq(output_dir, 1, Len(output_dir) - 1) \o Str(f)
    ELSE output_dir \o <<"_", "f", "o", "l", "d", "_">> \o Str(f)

\* line 280 / line 380: the declared total equals the sum of the phase epochs
EpochSumMatches(args, n_epochs) == args.num_train_epochs = Sum(n_epochs)

PartitionCumulative(ds, order) ==
    [k \in 1..Len(order) |->
        FilterByScores(ds, UNION {order[q] : q \in 1..k})]
\* lines 283-284: one filtered dataset per group of difficulty_order
Partition(ds, difficulty_order) ==
    [k \in 1..Len(difficulty_order) |-> FilterByScores(ds, difficulty_order[k])]

\* line 385: the two phases of the pairwise runner without mixing
PlainPair(ds, synth) == <<ds, concatenate_datasets(<<ds, synth>>)>>

\* line 379
PhaseEpochsCL == <<10, 10>>

\* the n_epochs list the running function loops over
NEpochs == IF entry = "run_cl_with_synthesised_data" THEN PhaseEpochsCL
           ELSE ccl_args.n_epochs

\* zip(n_epochs, train_datasets) has as many items as the shorter list
ZipLen(n_epochs, datasets) == Min(Len(n_epochs), Len(datasets))

\* the pretrained model: no training pass applied
Pretrained == <<>>

ModelArgReset(k, m, tr) == Pretrained
\* line 296 / line 393: model=model if i == 0 else trainer.model
ModelArg(k, m, tr) == IF k = 0 THEN m ELSE tr[1].model

\* lines 295-304: CTCTrainer(model=..., train_dataset=current_train_dataset)
NewTrainer(k, m, tr, datasets) ==
    <<[model |-> ModelArg(k, m, tr), train_dataset |-> datasets[k + 1]]>>

\* trainer.train(): the model after one more pass of `epochs` epochs over ds
TrainedModel(m, k, epochs, ds) ==
    Append(m, [phase |-> k, epochs |-> epochs, N |-> Len(ds)])

Event(op, k, m, epochs, ds, ok) ==
    [op |-> op, phase |-> k, model |-> m, epochs |-> epochs, data |-> ds,
     ok |-> ok]

NoMixCall == [fn |-> "none", datasets |-> <<>>, swap_proportion |-> Frac(0, 1),
              num_of_unique_classes |-> 0]

\* the function stops with exception e; args is training_args and datasets the
\* local train_datasets as they stand
Fail(e, args, mix, call, datasets) ==
    /\ pc' = "failed"
    /\ error' = e
    /\ training_args' = args
    /\ mix_args' = call
    /\ n_splits' = mix.splits
    /\ n_concats' = mix.concats
    /\ train_datasets' = datasets
    /\ UNCHANGED <<i, trainer, model, events>>

\* lines 289-304 for the first item of the zip, up to the first trainer call
EnterLoop(args, mix, call, n_epochs) ==
    /\ error' = "none"
    /\ train_datasets' = mix.result
    /\ mix_args' = call
    /\ n_splits' = mix.splits
    /\ n_concats' = mix.concats
    /\ UNCHANGED <<model, events>>
    /\ IF ZipLen(n_epochs, mix.result) = 0
       THEN /\ pc' = "final"
            /\ training_args' = args
            /\ UNCHANGED <<i, trainer>>
       ELSE /\ pc' = "predict"
            /\ i' = 0
            /\ training_args' = [args EXCEPT !.num_train_epochs = n_epochs[1]]
            /\ trainer' = NewTrainer(0, model, trainer, mix.result)

\* run_ccl_train, lines 263-304: up to the baseline prediction
Begin_ccl ==
    /\ pc = "start"
    /\ entry = "run_ccl_train"
    /\ UNCHANGED <<entry, train_dataset, synth_train_dataset, declared_epochs,
                   declared_dir, invocation, ccl_args, um, fold>>
    /\ LET args == [training_args EXCEPT
                        !.output_dir = FoldDir(training_args.output_dir, fold)]
           buckets == Partition(train_dataset, ccl_args.difficulty_order)
           call == [fn |-> "uniform_mixing", datasets |-> buckets,
                    swap_proportion |-> Frac(1, 5),
                    num_of_unique_classes |->
                        Cardinality(Unique(train_dataset))]
           mix == IF um
                  THEN uniform_mixing(call.datasets, call.swap_proportion,
                                      call.num_of_unique_classes)
                  ELSE Returned(buckets, 0, 0)
       IN  IF ~EpochSumMatches(training_args, ccl_args.n_epochs)
           THEN Fail("AssertionError", args, Raised("AssertionError", 0),
                     NoMixCall, train_datasets)
           ELSE IF mix.err # "none"
           THEN Fail(mix.err, args, mix, call, buckets)
           ELSE EnterLoop(args, mix, IF um THEN call ELSE NoMixCall,
                          ccl_args.n_epochs)

\* run_train, lines 169-193: the output dir rewritten and the trainer built on
\* the whole training set; num_train_epochs is left as declared
Begin_train ==
    /\ pc = "start"
    /\ entry = "run_train"
    /\ pc' = "predict"
    /\ training_args' = [training_args EXCEPT
                            !.output_dir = FoldDir(training_args.output_dir, fold)]
    /\ trainer' = <<[model |-> model, train_dataset |-> train_dataset]>>
    /\ UNCHANGED <<entry, train_dataset, synth_train_dataset, declared_epochs,
                   declared_dir, invocation, ccl_args, um, fold, mix_args,
                   train_datasets, i, model, events, error, n_splits,
                   n_concats>>

\* run_cl_with_synthesised_data, lines 364-401: up to the baseline prediction
Begin_cl ==
    /\ pc = "start"
    /\ entry = "run_cl_with_synthesised_data"
    /\ UNCHANGED <<entry, train_dataset, synth_train_dataset, declared_epochs,
                   declared_dir, invocation, ccl_args, um, fold>>
    /\ LET args == [training_args EXCEPT
                        !.output_dir = FoldDir(training_args.output_dir, fold)]
           call == [fn |-> "uniform_mixing_tts",
                    datasets |-> <<train_dataset, synth_train_dataset>>,
                    swap_proportion |-> Frac(1, 5),
                    num_of_unique_classes |-> 0]
           mix == IF um
                  THEN uniform_mixing_tts(call.datasets, call.swap_proportion)
                  ELSE Returned(PlainPair(train_dataset, synth_train_dataset),
                                0, 1)
       IN  IF ~EpochSumMatches(training_args, PhaseEpochsCL)
           THEN Fail("AssertionError", args, Raised("AssertionError", 0),
                     NoMixCall, train_datasets)
           ELSE IF mix.err # "none"
           THEN Fail(mix.err, args, mix, call, train_datasets)
           ELSE EnterLoop(args, mix, IF um THEN call ELSE NoMixCall,
                          PhaseEpochsCL)

Frame == UNCHANGED <<entry, train_dataset, synth_train_dataset, declared_epochs,
                     declared_dir, invocation, ccl_args, um, fold, mix_args,
                     train_datasets,
                     n_splits, n_concats>>

\* where control goes when a collaborator call raises: no try/except encloses
\* the calls, so out of the function
RaisedPcRetry == "train"
RaisedPc == "failed"

\* lines 307-311 / 404-408: the baseline prediction of the first iteration;
\* lines 196-199 in run_train
BaselinePredict ==
    /\ pc = "predict"
    /\ Frame
    /\ UNCHANGED <<training_args, i, trainer, model>>
    /\ \E ok \in BOOLEAN :
        /\ events' = Append(events,
                Event("predict", i, trainer[1].model,
                      training_args.num_train_epochs, <<>>, ok))
        /\ pc' = IF ok THEN "train" ELSE RaisedPc
        /\ error' = IF ok THEN "none" ELSE "CollaboratorError"

\* lines 316 / 413: trainer.train(), then the next item of the zip (lines
\* 289-304) or the end of the loop; line 204 in run_train, which has no loop
Train ==
    /\ pc = "train"
    /\ Frame
    /\ \E ok \in BOOLEAN :
        LET epochs == training_args.num_train_epochs
            ds == trainer[1].train_dataset
            trained == TrainedModel(trainer[1].model, i, epochs, ds)
            after == <<[trainer[1] EXCEPT !.model = trained]>>
        IN
        /\ events' = Append(events,
                Event("train", i, trainer[1].model, epochs, ds, ok))
        /\ IF ~ok
           THEN /\ pc' = RaisedPc
                /\ error' = "CollaboratorError"
                /\ UNCHANGED <<training_args, i, trainer, model>>
           ELSE /\ error' = "none"
                /\ model' = trained
                /\ IF i + 1 < ZipLen(NEpochs, train_datasets)
                   THEN /\ pc' = "train"
                        /\ i' = i + 1
                        /\ training_args' = [training_args EXCEPT
                                !.num_train_epochs = NEpochs[i + 2]]
                        /\ trainer' = NewTrainer(i + 1, trained, after,
                                                 train_datasets)
                   ELSE /\ pc' = "final"
                        /\ trainer' = after
                        /\ UNCHANGED <<training_args, i>>

\* lines 321-325 / 418-422: the prediction after the loop; trainer is unbound
\* when the loop ran over no item; lines 212-213 in run_train
FinalPredict ==
    /\ pc = "final"
    /\ Frame
    /\ UNCHANGED <<training_args, i, trainer, model>>
    /\ IF trainer = <<>>
       THEN /\ pc' = "failed"
            /\ error' = "UnboundLocalError"
            /\ UNCHANGED events
       ELSE \E ok \in BOOLEAN :
            /\ events' = Append(events,
                    Event("predict", i, trainer[1].model,
                          training_args.num_train_epochs, <<>>, ok))
            /\ pc' = IF ok THEN "done" ELSE RaisedPc
            /\ error' = IF ok THEN "none" ELSE "CollaboratorError"

\* the caller calls the same runner again after it returned, passing the same
\* training_args object, the same data and configuration, and a freshly loaded
\* model; the function's locals start anew
Reinvoke ==
    /\ pc = "done"
    /\ entry \in {"run_ccl_train", "run_cl_with_synthesised_data"}
    /\ invocation < MaxInvocations
    /\ invocation' = invocation + 1
    /\ declared_epochs' = training_args.num_train_epochs
    /\ declared_dir' = training_args.output_dir
    /\ pc' = "start"
    /\ train_datasets' = <<>>
    /\ i' = 0 - 1
    /\ trainer' = <<>>
    /\ model' = Pretrained
    /\ events' = <<>>
    /\ error' = "none"
    /\ n_splits' = 0
    /\ n_concats' = 0
    /\ mix_args' = NoMixCall
    /\ UNCHANGED <<entry, train_dataset, synth_train_dataset, training_args,
                   ccl_args, um, fold>>

\* a direct call of uniform_mixing or uniform_mixing_tts
CallMixer ==
    /\ pc = "start"
    /\ entry \in {"uniform_mixing", "uniform_mixing_tts"}
    /\ UNCHANGED <<entry, train_dataset, synth_train_dataset, training_args,
                   declared_epochs, declared_dir, invocation, ccl_args, um,
                   fold, mix_args, i,
                   trainer, model, events>>
    /\ LET mix == IF entry = "uniform_mixing"
                  THEN uniform_mixing(mix_args.datasets,
                                      mix_args.swap_proportion,
                                      mix_args.num_of_unique_classes)
                  ELSE uniform_mixing_tts(mix_args.datasets,
                                          mix_args.swap_proportion)
       IN  /\ pc' = IF mix.err = "none" THEN "done" ELSE "failed"
           /\ error' = mix.err
           /\ train_datasets' = mix.result
           /\ n_splits' = mix.splits
           /\ n_concats' = mix.concats

\* ------------------------------------------------------------------ inputs
\* generated training sets: counts[l] rows of label l
CountVectors ==
    {c \in [Labels -> 0..MaxEasyCount] :
        \A l \in Labels : l > 1 => c[l] <= MaxOtherCount}
TrainSets == {MakeDataset(c, 1, FALSE) : c \in CountVectors}

\* difficulty_order of the configuration: nested and covering, disjoint and
\* covering, overlapping, leaving a label out, a single group, no group
DifficultyOrders ==
    { <<{1}, {1, 2}, {1, 2, 3}>>, <<{1}, {2}, {3}>>, <<{1}, {1, 2}, {3}>>,
      <<{1}, {1, 2}>>, <<{1}, {2}>>, <<>> }

\* n_epochs of the configuration
NEpochChoices ==
    { <<>>, <<1, MaxEpoch>>, <<MaxEpoch, 1, 1>>, <<1, 1, MaxEpoch>> }

\* the declared total: the sum of a list, or one more
Totals(n_epochs) == {Sum(n_epochs), Sum(n_epochs) + 1}

\* swap_proportion of a direct mixer call
SwapProportions ==
    { Frac(0 - 1, 5), Frac(0, 1), Frac(1, 5), Frac(1, 2), Frac(4, 5),
      Frac(1, 1), Frac(6, 5) }

OutputDirs == { <<"o", "u", "t">>, <<"o", "u", "t", "7">>, <<"o", "u", "t", "²">> }

\* the spec's end-to-end scenarios
ScenarioCounts == <<100, 50, 30>>
ScenarioEpochs == <<3, 3, 4>>
ScenarioSide == <<200>>

Locals ==
    /\ pc = "start"
    /\ train_datasets = <<>>
    /\ i = 0 - 1
    /\ trainer = <<>>
    /\ model = Pretrained
    /\ events = <<>>
    /\ error = "none"
    /\ n_splits = 0
    /\ n_concats = 0
    /\ declared_epochs = training_args.num_train_epochs
    /\ declared_dir = training_args.output_dir
    /\ invocation = 1

\* run_ccl_train over generated training sets and configurations
InitCCL ==
    /\ entry = "run_ccl_train"
    /\ train_dataset \in TrainSets
    /\ synth_train_dataset = <<>>
    /\ ccl_args \in [difficulty_order : DifficultyOrders,
                     n_epochs : NEpochChoices]
    /\ \E t \in Totals(ccl_args.n_epochs) :
            training_args = [num_train_epochs |-> t,
                             output_dir |-> <<"o", "u", "t">>]
    /\ um \in BOOLEAN
    /\ fold = 0
    /\ mix_args = NoMixCall

\* run_cl_with_synthesised_data over generated original and synthesised sets
InitCL ==
    /\ entry = "run_cl_with_synthesised_data"
    /\ \E n \in 0..MaxSide, m \in 0..MaxSide :
        /\ train_dataset = MakeDataset(<<n>>, 1, FALSE)
        /\ synth_train_dataset = MakeDataset(<<m>>, n + 1, TRUE)
    /\ ccl_args = [difficulty_order |-> <<>>, n_epochs |-> <<>>]
    /\ \E t \in Totals(PhaseEpochsCL) :
            training_args = [num_train_epochs |-> t,
                             output_dir |-> <<"o", "u", "t">>]
    /\ um \in BOOLEAN
    /\ fold = 0
    /\ mix_args = NoMixCall

\* either runner over the output dirs and the folds
InitDirs ==
    /\ entry \in {"run_ccl_train", "run_cl_with_synthesised_data"}
    /\ train_dataset = MakeDataset(<<1, 1>>, 1, FALSE)
    /\ synth_train_dataset = MakeDataset(<<1>>, 3, TRUE)
    /\ ccl_args \in {[difficulty_order |-> <<{1}, {1, 2}>>,
                      n_epochs |-> <<1, MaxEpoch>>]}
                \cup (IF entry = "run_ccl_train"
                      THEN {[difficulty_order |-> <<{1, 2}>>,
                             n_epochs |-> <<MaxEpoch>>],
                            [difficulty_order |-> <<{1}, {2}>>,
                             n_epochs |-> <<0, MaxEpoch>>]}
                      ELSE {})
    /\ training_args \in [num_train_epochs : {Sum(NEpochs)},
                          output_dir : OutputDirs]
    /\ um = FALSE
    /\ fold \in 0..MaxFold
    /\ mix_args = NoMixCall

\* run_train over the output dirs, the folds and the declared epochs
InitTrain ==
    /\ entry = "run_train"
    /\ \E n \in 0..MaxSide : train_dataset = MakeDataset(<<n>>, 1, FALSE)
    /\ synth_train_dataset = <<>>
    /\ ccl_args = [difficulty_order |-> <<>>, n_epochs |-> <<>>]
    /\ training_args \in [num_train_epochs : 0..MaxEpoch,
                          output_dir : OutputDirs]
    /\ um = FALSE
    /\ fold \in 0..MaxFold
    /\ mix_args = NoMixCall

\* a direct call of uniform_mixing on the buckets of a generated training set
InitMix ==
    /\ entry = "uniform_mixing"
    /\ train_dataset \in TrainSets
    /\ synth_train_dataset = <<>>
    /\ ccl_args \in [difficulty_order : DifficultyOrders, n_epochs : {<<>>}]
    /\ training_args = [num_train_epochs |-> 0, output_dir |-> <<"o", "u", "t">>]
    /\ um = TRUE
    /\ fold = 0
    /\ \E p \in SwapProportions :
        mix_args = [fn |-> "uniform_mixing",
                    datasets |-> Partition(train_dataset,
                                           ccl_args.difficulty_order),
                    swap_proportion |-> p,
                    num_of_unique_classes |->
                        Cardinality(Unique(train_dataset))]

\* a direct call of uniform_mixing at 0.5 on three buckets, with any number
\* of classes
InitMixClasses ==
    /\ entry = "uniform_mixing"
    /\ train_dataset \in TrainSets
    /\ synth_train_dataset = <<>>
    /\ ccl_args \in [difficulty_order :
                        {o \in DifficultyOrders : Len(o) = 3},
                     n_epochs : {<<>>}]
    /\ training_args = [num_train_epochs |-> 0, output_dir |-> <<"o", "u", "t">>]
    /\ um = TRUE
    /\ fold = 0
    /\ \E c \in 0..NumLabels :
        mix_args = [fn |-> "uniform_mixing",
                    datasets |-> Partition(train_dataset,
                                           ccl_args.difficulty_order),
                    swap_proportion |-> Frac(1, 2),
                    num_of_unique_classes |-> c]

\* a direct call of uniform_mixing_tts on two (or three) generated sets
InitMixTts ==
    /\ entry = "uniform_mixing_tts"
    /\ \E n \in 0..MaxSide, m \in 0..MaxSide :
        /\ train_dataset = MakeDataset(<<n>>, 1, FALSE)
        /\ synth_train_dataset = MakeDataset(<<m>>, n + 1, TRUE)
    /\ ccl_args = [difficulty_order |-> <<>>, n_epochs |-> <<>>]
    /\ training_args = [num_train_epochs |-> 0, output_dir |-> <<"o", "u", "t">>]
    /\ um = TRUE
    /\ fold = 0
    /\ \E p \in SwapProportions, extra \in {<<>>, <<train_dataset>>} :
        mix_args = [fn |-> "uniform_mixing_tts",
                    datasets |-> <<train_dataset, synth_train_dataset>>
                                 \o extra,
                    swap_proportion |-> p,
                    num_of_unique_classes |-> 0]

\* run_ccl_train on buckets of 100/50/30 rows with epochs [3,3,4], total 10
InitScenarioCCL ==
    /\ entry = "run_ccl_train"
    /\ train_dataset = MakeDataset(ScenarioCounts, 1, FALSE)
    /\ synth_train_dataset = <<>>
    /\ ccl_args \in [difficulty_order :
                        {<<{1}, {2}, {3}>>, <<{1}, {1, 2}, {1, 2, 3}>>},
                     n_epochs : {ScenarioEpochs}]
    /\ training_args = [num_train_epochs |-> Sum(ScenarioEpochs),
                        output_dir |-> <<"o", "u", "t">>]
    /\ um = FALSE
    /\ fold = 0
    /\ mix_args = NoMixCall

\* uniform_mixing_tts on 200 original and 200 synthesised rows at 0.2
InitScenarioTts ==
    /\ entry = "uniform_mixing_tts"
    /\ train_dataset = MakeDataset(ScenarioSide, 1, FALSE)
    /\ synth_train_dataset =
            MakeDataset(ScenarioSide, Sum(ScenarioSide) + 1, TRUE)
    /\ ccl_args = [difficulty_order |-> <<>>, n_epochs |-> <<>>]
    /\ training_args = [num_train_epochs |-> 0, output_dir |-> <<"o", "u", "t">>]
    /\ um = TRUE
    /\ fold = 0
    /\ mix_args = [fn |-> "uniform_mixing_tts",
                   datasets |-> <<train_dataset, synth_train_dataset>>,
                   swap_proportion |-> Frac(1, 5),
                   num_of_unique_classes |-> 0]

Init ==
    /\ \/ InitCCL
       \/ InitCL
       \/ InitDirs
       \/ InitTrain
       \/ InitMix
       \/ InitMixClasses
       \/ InitMixTts
       \/ InitScenarioCCL
       \/ InitScenarioTts
    /\ Locals

Next == Begin_train \/ Begin_ccl \/ Begin_cl \/ BaselinePredict \/ Train \/ FinalPredict
        \/ CallMixer \/ Reinvoke

Spec == Init /\ [][Next]_vars

\* -------------------------------------------------------------- properties
Runner == entry \in {"run_ccl_train", "run_cl_with_synthesised_data"}
CCLPlain == entry = "run_ccl_train" /\ ~um
TrainEvents == {j \in DOMAIN events : events[j].op = "train"}
difficulty_order == ccl_args.difficulty_order

\* bucket k of the training set: the rows whose label is in group k
BucketRows(k) == {r \in Rows(train_dataset) : r.cefr_mean \in difficulty_order[k]}
UnionUpTo(k) == UNION {BucketRows(q) : q \in 1..k}
NestedUpTo(k) == \A q \in 1..(k - 1) : difficulty_order[q] \subseteq difficulty_order[q + 1]
IsScenarioCCL ==
    /\ train_dataset = MakeDataset(ScenarioCounts, 1, FALSE)
    /\ ccl_args.n_epochs = ScenarioEpochs

\* C1 as stated: without uniform mixing, for every difficulty_order, the
\* training subset handed to phase i is the union of the buckets 0..i.
C1_Original ==
    CCLPlain =>
        \A j \in TrainEvents :
            LET k == events[j].phase + 1 IN
            /\ k <= Len(difficulty_order)
            /\ Rows(events[j].data) = UnionUpTo(k)
            /\ Len(events[j].data) = Cardinality(UnionUpTo(k))

\* C1 as amended: without uniform mixing the training subset of phase i is
\* exactly bucket i (every training row whose label is in difficulty_order[i],
\* once), trained for n_epochs[i] epochs; it is the union of the buckets 0..i
\* when the groups up to i are nested. On the scenario data the disjoint groups
\* give 100, 50, 30 rows and the nested groups 100, 150, 180 rows.
C1_PhaseIsItsBucket ==
    CCLPlain =>
        \A j \in TrainEvents :
            LET k == events[j].phase + 1
                data == events[j].data
            IN
            /\ k <= Len(difficulty_order)
            /\ Rows(data) = BucketRows(k)
            /\ Len(data) = Cardinality(BucketRows(k))
            /\ events[j].epochs = ccl_args.n_epochs[k]
            /\ NestedUpTo(k) =>
                /\ Rows(data) = UnionUpTo(k)
                /\ k > 1 => /\ BucketRows(k - 1) \subseteq Rows(data)
                            /\ Cardinality(BucketRows(k - 1)) <= Len(data)
            /\ IsScenarioCCL =>
                Len(data) = IF NestedUpTo(Len(difficulty_order))
                            THEN Sum(SubSeq(ScenarioCounts, 1, k))
                            ELSE ScenarioCounts[k]

\* the scenario run over the disjoint groups has trained its three phases
C1_Witness ==
    /\ CCLPlain
    /\ IsScenarioCCL
    /\ difficulty_order = <<{1}, {2}, {3}>>
    /\ pc = "done"
    /\ Cardinality(TrainEvents) = 3

\* C2 as stated: in both runners a declared total that differs from the sum of
\* the phase epochs stops the run before any predict or train call, and in a
\* run that trains, the epochs handed to the phases sum to the declared total.
C2_EpochsSumToDeclared ==
    Runner =>
        /\ declared_epochs # Sum(NEpochs) =>
                /\ events = <<>>
                /\ pc \in {"start", "failed"}
                /\ pc = "failed" => error = "AssertionError"
        /\ pc = "done" =>
                Sum([j \in 1..(Len(events) - 2) |-> events[j + 1].epochs])
                    = declared_epochs

\* C3 as stated: a difficulty_order and an n_epochs of different lengths are
\* rejected and no phase is trained.
C3_LengthMismatchRejected ==
    (entry = "run_ccl_train"
        /\ Len(difficulty_order) # Len(ccl_args.n_epochs)) =>
        /\ \A j \in TrainEvents : ~events[j].ok
        /\ pc # "done"

\* C4 as stated: a training row whose label is in no declared group makes the
\* partition fail; in a run that proceeds every row lies in some bucket.
C4_UncoveredLabelRejected ==
    (entry = "run_ccl_train" /\ pc = "done") =>
        \A r \in Rows(train_dataset) :
            \E k \in DOMAIN difficulty_order : r.cefr_mean \in difficulty_order[k]

Last(s) == s[Len(s)]

\* the model a training pass of event e leaves behind
ModelAfter(e) ==
    Append(e.model, [phase |-> e.phase, epochs |-> e.epochs, N |-> Len(e.data)])

\* C5: the calls of a runner are, in this order, one baseline prediction on
\* the pretrained model, one training pass per item of zip(n_epochs,
\* train_datasets) in list order, each starting from the model the previous pass
\* left, and, in a run that completes, exactly one final prediction on the
\* model the last pass left.
C5_EventOrder ==
    Runner =>
        LET n == Len(events)
            z == ZipLen(NEpochs, train_datasets)
        IN
        /\ n <= z + 2
        /\ z = 0 => n = 0 /\ pc # "done"
        /\ \A j \in 1..n :
            /\ j = 1 =>
                /\ events[j].op = "predict"
                /\ events[j].model = Pretrained
            /\ (1 < j /\ j <= z + 1) =>
                /\ events[j].op = "train"
                /\ events[j].phase = j - 2
                /\ events[j].data = train_datasets[j - 1]
                /\ events[j].epochs = NEpochs[j - 1]
                /\ events[j].model = IF j = 2 THEN Pretrained
                                     ELSE ModelAfter(events[j - 1])
            /\ j = z + 2 =>
                /\ events[j].op = "predict"
                /\ events[j].model = ModelAfter(events[j - 1])
        /\ pc = "done" =>
                /\ n = z + 2
                /\ model = ModelAfter(events[n - 1])

\* a run of run_ccl_train over three phases has completed
C5_Witness ==
    /\ entry = "run_ccl_train"
    /\ pc = "done"
    /\ Len(events) = 5

\* C9: a collaborator call that raises is the last call of the run: the
\* exception leaves the runner as it was raised, the call is not made again, no
\* later phase is trained and no final prediction is made.
C9_RaisePropagates ==
    Runner =>
        /\ \A j \in 1..(Len(events) - 1) : events[j].ok
        /\ (events # <<>> /\ ~Last(events).ok) =>
                /\ pc = "failed"
                /\ error = "CollaboratorError"
        /\ error = "CollaboratorError" =>
                /\ events # <<>>
                /\ ~Last(events).ok
        /\ pc = "failed" => ~ENABLED Next

\* the training pass of the second of three phases has raised
C9_Witness ==
    /\ Runner
    /\ error = "CollaboratorError"
    /\ ZipLen(NEpochs, train_datasets) = 3
    /\ Last(events).op = "train"
    /\ Last(events).phase = 1

\* a mixer was called / was called and returned its list
MixCalled == mix_args.fn # "none" /\ pc # "start"
MixReturned == MixCalled /\ error \notin {"AssertionError", "ValueError"}
BucketMixReturned == MixReturned /\ mix_args.fn = "uniform_mixing"
TtsMixReturned == MixReturned /\ mix_args.fn = "uniform_mixing_tts"
InputTotal ==
    Sum([k \in DOMAIN mix_args.datasets |-> Len(mix_args.datasets[k])])
\* the rows of ds that are rows of the dataset src
CountFrom(ds, src) == Cardinality({k \in DOMAIN ds : ds[k] \in Rows(src)})
\* d is p * n rounded up
IsShare(d, p, n) == p.num * n <= d * p.den /\ d * p.den < p.num * n + p.den

\* C6: a mixer that returns preserves the number of rows: the last returned
\* phase has as many rows as all input sets together, and the returned phases
\* (3 for uniform_mixing, 2 for uniform_mixing_tts) grow by the sizes of the
\* mixed sets, which sum to the input total.
C6_CountPreserved ==
    MixReturned =>
        /\ Len(train_datasets) =
                IF mix_args.fn = "uniform_mixing" THEN 3 ELSE 2
        /\ Len(train_datasets) = Len(mix_args.datasets)
        /\ \A k \in 1..(Len(train_datasets) - 1) :
                Len(train_datasets[k]) <= Len(train_datasets[k + 1])
        /\ Len(Last(train_datasets)) = InputTotal

\* uniform_mixing has returned on an easy set of 5 rows at 0.5, whose donor
\* pool of 3 rows does not halve evenly
C6_Witness ==
    /\ BucketMixReturned
    /\ mix_args.swap_proportion = Frac(1, 2)
    /\ Len(mix_args.datasets[1]) = 5

\* C7: uniform_mixing_tts swaps symmetrically: each side gives swap_proportion
\* of its rows (rounded up) to the other, phase 0 holds the retained original
\* rows and the donated synthesised rows, phase 1 holds every row of both
\* sides. 200 + 200 rows at 0.2 give a phase 0 of 160 original and 40
\* synthesised rows and a phase 1 of 400 rows.
C7_SymmetricSwap ==
    TtsMixReturned =>
        LET original_data == mix_args.datasets[1]
            synthesised_data == mix_args.datasets[2]
            p == mix_args.swap_proportion
            phase0 == train_datasets[1]
            phase1 == train_datasets[2]
            kept == CountFrom(phase0, original_data)
            got == CountFrom(phase0, synthesised_data)
        IN
        /\ IsShare(Len(original_data) - kept, p, Len(original_data))
        /\ IsShare(got, p, Len(synthesised_data))
        /\ Len(phase0) = kept + got
        /\ \A r \in Rows(phase0) : Count(phase0, r) = 1
        /\ SameRows(phase1, original_data \o synthesised_data)
        /\ Len(original_data) = Len(synthesised_data) =>
                Len(phase0) = Len(original_data)
        /\ (Len(original_data) = 200 /\ Len(synthesised_data) = 200
                /\ p = Frac(1, 5)) =>
                /\ kept = 160
                /\ got = 40
                /\ Len(phase0) = 200
                /\ Len(phase1) = 400

\* uniform_mixing_tts has returned on 200 original and 200 synthesised rows
C7_Witness ==
    /\ TtsMixReturned
    /\ Len(mix_args.datasets[1]) = 200
    /\ Len(mix_args.datasets[2]) = 200
    /\ mix_args.swap_proportion = Frac(1, 5)

InputsDisjoint ==
    \A a, b \in DOMAIN mix_args.datasets :
        a # b => Rows(mix_args.datasets[a]) \cap Rows(mix_args.datasets[b]) = {}

\* what C8 says of the sizes and the nesting of the three returned phases
C8_Shape ==
    LET easy_set == mix_args.datasets[1]
        medium_set == mix_args.datasets[2]
        hard_set == mix_args.datasets[3]
        p == mix_args.swap_proportion
        pool == Ceil(p.num * Len(easy_set), p.den)
        half == Ceil(pool, 2)
        from_medium == Ceil(p.num * Len(medium_set), 2 * p.den)
        from_hard == Ceil(p.num * Len(hard_set), 2 * p.den)
        r == train_datasets
    IN
    /\ SubRows(r[1], r[2])
    /\ SubRows(r[2], r[3])
    /\ Len(r[1]) = (Len(easy_set) - pool) + from_medium + from_hard
    /\ Len(r[2]) - Len(r[1]) = (Len(medium_set) - from_medium) + (pool - half)
    /\ Len(r[3]) - Len(r[2]) = (Len(hard_set) - from_hard) + half
    /\ SameRows(r[3], concatenate_datasets(mix_args.datasets))
    /\ InputsDisjoint =>
        /\ CountFrom(r[1], easy_set) = Len(easy_set) - pool
        /\ CountFrom(r[1], medium_set) = from_medium
        /\ CountFrom(r[1], hard_set) = from_hard
        /\ CountFrom(r[2], easy_set) = Len(easy_set) - half
        /\ CountFrom(r[2], medium_set) = Len(medium_set)
        /\ CountFrom(r[2], hard_set) = from_hard

\* no row occurs in two of the mixed sets: no row occurs twice in the last phase
NoRowTwice == \A r \in Rows(Last(train_datasets)) : Count(Last(train_datasets), r) = 1

\* C8 as stated: uniform_mixing returns the cumulative unions of the mixed
\* sets, composed as described, and no example is in two mixed sets.
C8_Original == BucketMixReturned => (C8_Shape /\ NoRowTwice)

\* C8 as amended: uniform_mixing returns the cumulative unions of the mixed
\* sets, composed as described; no example is in two mixed sets when the three
\* input sets are pairwise disjoint, and in every case a row occurs in the last
\* phase as often as in the input sets together.
C8_CumulativeMix ==
    BucketMixReturned => (C8_Shape /\ (InputsDisjoint => NoRowTwice))

\* run_ccl_train has mixed three non-empty disjoint buckets
C8_Witness ==
    /\ BucketMixReturned
    /\ entry = "run_ccl_train"
    /\ InputsDisjoint
    /\ \A k \in 1..3 : mix_args.datasets[k] # <<>>

\* C10: a mixer called with a swap_proportion that is not strictly between 0
\* and 1 raises AssertionError before any split or concatenation; a mixer that
\* returns was given a swap_proportion strictly between 0 and 1.
C10_ProportionChecked ==
    MixCalled =>
        LET p == mix_args.swap_proportion IN
        /\ (p.num <= 0 \/ p.num >= p.den) =>
                /\ pc = "failed"
                /\ error = "AssertionError"
                /\ n_splits = 0
                /\ n_concats = 0
                /\ ~MixReturned
        /\ MixReturned => (0 < p.num /\ p.num < p.den)

\* uniform_mixing_tts was called on two non-empty sets with swap_proportion 1
C10_Witness ==
    /\ MixCalled
    /\ mix_args.fn = "uniform_mixing_tts"
    /\ mix_args.swap_proportion = Frac(1, 1)
    /\ Len(mix_args.datasets) = 2
    /\ \A k \in 1..2 : mix_args.datasets[k] # <<>>
    /\ pc = "failed"

BucketMixCalled == MixCalled /\ mix_args.fn = "uniform_mixing"
\* the call raised and no train_test_split had been called
FailedBeforeSplit == pc = "failed" /\ n_splits = 0
\* the hard set holds as many distinct labels as num_of_unique_classes
HardSetIsFull ==
    /\ mix_args.datasets # <<>>
    /\ Cardinality(Unique(Last(mix_args.datasets)))
            = mix_args.num_of_unique_classes

\* C11 as stated: uniform_mixing fails before any split exactly when the
\* hard set holds as many distinct labels as there are classes.
C11_Original == BucketMixCalled => (FailedBeforeSplit <=> HardSetIsFull)

\* C11 as amended: uniform_mixing fails before any split whenever the hard set
\* holds as many distinct labels as there are classes, and, given three sets
\* and a swap_proportion strictly between 0 and 1, only then. Called from
\* run_ccl_train with um, a difficulty_order whose last group covers every
\* label present in the training data is rejected with no split, no prediction
\* and no training; three groups whose last one leaves a present label out pass
\* the guard and reach the first split.
C11_GuardRejectsFullHardSet ==
    BucketMixCalled =>
        LET p == mix_args.swap_proportion
            present == Unique(train_dataset)
        IN
        /\ HardSetIsFull =>
                /\ FailedBeforeSplit
                /\ error = "AssertionError"
                /\ n_concats = 0
                /\ events = <<>>
        /\ (Len(mix_args.datasets) = 3 /\ 0 < p.num /\ p.num < p.den) =>
                (FailedBeforeSplit <=> HardSetIsFull)
        /\ (entry = "run_ccl_train" /\ difficulty_order # <<>>) =>
                /\ present \subseteq Last(difficulty_order) =>
                        /\ FailedBeforeSplit
                        /\ error = "AssertionError"
                        /\ events = <<>>
                /\ (Len(difficulty_order) = 3
                        /\ ~(present \subseteq Last(difficulty_order))) =>
                        n_splits >= 1

\* run_ccl_train with um was given nested groups covering all three labels of
\* a training set that holds enough rows for every split
C11_Witness ==
    /\ BucketMixCalled
    /\ entry = "run_ccl_train"
    /\ difficulty_order = <<{1}, {1, 2}, {1, 2, 3}>>
    /\ Unique(train_dataset) = {1, 2, 3}
    /\ Len(train_dataset) >= 10
    /\ pc = "failed"

\* the phases a completed run has trained: one per item of the zip
PhasesRun ==
    ZipLen(NEpochs, IF entry = "run_ccl_train" THEN difficulty_order
                    ELSE <<train_dataset, synth_train_dataset>>)
LastPhaseEpochs == NEpochs[PhasesRun]
\* the current call stopped at the epoch-sum assertion
EpochCheckFailed ==
    pc = "failed" /\ error = "AssertionError" /\ mix_args.fn = "none"
\* output_dir with the fold written into it: over a trailing numeric
\* character, or else after "_fold_"
WithFold(dir, f) ==
    IF Last(dir) \in NumericChars
    THEN [k \in 1..Len(dir) |-> IF k < Len(dir) THEN dir[k] ELSE Str(f)[1]]
    ELSE [k \in 1..(Len(dir) + 7) |->
            IF k <= Len(dir) THEN dir[k]
            ELSE IF k = Len(dir) + 7 THEN Str(f)[1]
            ELSE <<"_", "f", "o", "l", "d", "_">>[k - Len(dir)]]

\* C12: a curriculum runner changes its training_args. Once it has completed,
\* num_train_epochs is the epoch count of the last phase, which is the declared
\* total only if that count equals the sum of all phases' counts, and
\* output_dir carries the fold suffix. Called again with the same object, it
\* passes the epoch-sum assertion only if the last phase's count equals the
\* sum of all counts, and with a single-digit fold the second rewrite leaves
\* output_dir as the first one made it.
C12_ArgsMutated ==
    Runner =>
        /\ pc = "done" =>
            /\ training_args.num_train_epochs = LastPhaseEpochs
            /\ declared_epochs = Sum(NEpochs)
            /\ (training_args.num_train_epochs = declared_epochs
                    <=> LastPhaseEpochs = Sum(NEpochs))
        /\ (pc # "start" /\ fold < 10) =>
            training_args.output_dir = WithFold(declared_dir, fold)
        /\ invocation >= 2 =>
            /\ declared_epochs = LastPhaseEpochs
            /\ pc # "start" =>
                /\ ~EpochCheckFailed <=> LastPhaseEpochs = Sum(NEpochs)
                /\ fold < 10 => training_args.output_dir = declared_dir

\* the second call with the same object has stopped at the epoch-sum
\* assertion: the first call left the last of several phases' epoch counts
C12_Witness ==
    /\ Runner
    /\ invocation = 2
    /\ EpochCheckFailed
    /\ Len(NEpochs) >= 2
    /\ declared_epochs = LastPhaseEpochs
    /\ declared_epochs < Sum(NEpochs)
    /\ training_args.output_dir = declared_dir

====
